---------------------------- MODULE Spec2Model ----------------------------
(***************************************************************************)
(* SimiluBot music player: the per-guild playback orchestration of         *)
(* similubot/music/music_player.py, for one guild, on an asyncio event     *)
(* loop.                                                                   *)
(*                                                                         *)
(* The event loop is modelled as it schedules: `ready` is the FIFO queue   *)
(* of callbacks (first steps and wake-ups of tasks and command handlers);  *)
(* one action runs the head of the queue up to its next suspension point   *)
(* (an await that really waits: network I/O, a download, a sleep, an       *)
(* Event.wait).  Completions of I/O, the end of an audio source and new    *)
(* commands arrive at any time and append to the queue.  Task.cancel()     *)
(* sets the task's cancel request and, when the task is suspended, wakes   *)
(* it; the CancelledError is raised when the task next runs.               *)
(*                                                                         *)
(* The per-guild dicts of MusicPlayer are modelled by the guild's entry:   *)
(* None (0) or FALSE when the guild has no entry.  Time values are         *)
(* modelled in the timing specification (SpecTiming); the orchestration    *)
(* specification keeps only whether an entry is present.                   *)
(***************************************************************************)
EXTENDS Integers, Sequences, FiniteSets, TLC

\* ------------------------------------------------------------------ bounds
MaxTasks == 2      \* playback-loop tasks existing (not finished) at a time
MaxTimers == 2     \* inactivity-timer tasks existing at a time
MaxSongs == 2      \* songs referenced (queued, current, playing) at a time
MaxHandlers == 2   \* command handlers in flight at a time
MaxReady == 2      \* backlog of the event loop at which no further event arrives
MaxGuilds == 2     \* guilds of the several-guild model
MaxQueued == 1     \* songs queued per guild in the several-guild model
MaxStamp == 2      \* clock readings 1..MaxStamp in the several-guild model
MaxRetries == 4    \* max_retries 0..MaxRetries given to a HEAD probe

None == 0
TaskIds == 1..MaxTasks
TimerIds == 1..MaxTimers
SongIds == 1..MaxSongs

VARIABLES
    queue,               \* QueueManager._queue: the queued songs, head first
    current_song,        \* QueueManager._current_song (None when there is none)
    connected,           \* VoiceManager: the bot is in the guild's voice channel
    audio,               \* the voice client's player: [on, song, waiter, seek]
    playback_task,       \* _playback_tasks[g] (a task id, None when absent)
    current_audio_file,  \* _current_audio_files[g] (the song whose file it is)
    has_start,           \* g in _playback_start_times
    has_paused,          \* g in _playback_paused_times
    has_total,           \* g in _total_paused_duration
    inactivity_timer,    \* _inactivity_timers[g] (a timer id, None when absent)
    has_last_activity,   \* g in _last_activity_times
    tasks,               \* the playback-loop tasks: [pc, song, cancel]
    timers,              \* the inactivity-timer tasks: [pc, cancel]
    ready,               \* the event loop's queue of callbacks to run
    waiting,             \* command handlers suspended in I/O, by kind
    last,                \* the public operation that returned in the last step
    skipped,             \* the song the last successful skip reported
    tclock, t_start, t_paused, t_total, t_seek,  \* timing model (SpecTiming)
    t_play,              \* what was asked of the timing model since the last start
    guilds,              \* the per-guild maps over several guilds (SpecGuilds)
    probe,               \* a Catbox HEAD probe in progress (SpecProbe)
    logcfg,              \* the 'similubot' logger and the last setup call (SpecLogger)
    seekq,               \* the last call of a SeekManager function (SpecSeek)
    ytc                  \* the YouTubeClient and its call in progress (SpecYouTube)

ovars == <<queue, current_song, connected, audio, playback_task,
           current_audio_file, has_start, has_paused, has_total,
           inactivity_timer, has_last_activity, tasks, timers, ready,
           waiting, last, skipped>>
tvars == <<tclock, t_start, t_paused, t_total, t_seek, t_play>>
xvars == <<guilds, probe, logcfg, seekq, ytc>>
vars == <<ovars, tvars, xvars>>

\* ------------------------------------------------------- the state record
\* The code of a step runs sequentially; each method is an operator from
\* the state before to the state after, and a step commits the final state.
S == [queue |-> queue, current_song |-> current_song, connected |-> connected,
      audio |-> audio, playback_task |-> playback_task,
      current_audio_file |-> current_audio_file, has_start |-> has_start,
      has_paused |-> has_paused, has_total |-> has_total,
      inactivity_timer |-> inactivity_timer,
      has_last_activity |-> has_last_activity, tasks |-> tasks,
      timers |-> timers, ready |-> ready, waiting |-> waiting,
      inBounds |-> TRUE]

\* The state seen by the callback at the head of the queue, taken off it.
Popped == [S EXCEPT !.ready = Tail(ready)]
Me == Head(ready)

\* The songs a state still refers to; an id no longer referred to is reused.
UsedSongsOf(s) ==
    {s.queue[i] : i \in 1..Len(s.queue)}
        \cup {s.current_song, s.audio.song, s.current_audio_file}
        \cup {s.tasks[t].song : t \in TaskIds}

Commit(s, result, sk) ==
    /\ s.inBounds
    /\ queue' = s.queue
    /\ current_song' = s.current_song
    /\ connected' = s.connected
    /\ audio' = s.audio
    /\ playback_task' = s.playback_task
    /\ current_audio_file' = s.current_audio_file
    /\ has_start' = s.has_start
    /\ has_paused' = s.has_paused
    /\ has_total' = s.has_total
    /\ inactivity_timer' = s.inactivity_timer
    /\ has_last_activity' = s.has_last_activity
    /\ tasks' = s.tasks
    /\ timers' = s.timers
    /\ ready' = s.ready
    /\ waiting' = s.waiting
    /\ last' = result
    /\ skipped' = IF sk \in (UsedSongsOf(s) \ {None}) THEN sk ELSE None
    /\ UNCHANGED <<tvars, xvars>>

NoAudio == [on |-> FALSE, song |-> None, waiter |-> None, seek |-> FALSE]
NoTask == [pc |-> "none", song |-> None, cancel |-> FALSE]
NoTimer == [pc |-> "none", cancel |-> FALSE]
NoResult == [op |-> "none", ok |-> FALSE, escaped |-> FALSE, msg |-> FALSE]

LoopEntry(t) == [k |-> "loop", id |-> t, ph |-> "step"]
TimerEntry(n) == [k |-> "timer", id |-> n, ph |-> "step"]
HandlerEntry(kind, phase) == [k |-> kind, id |-> None, ph |-> phase]

InReady(s, e) == \E i \in 1..Len(s.ready) : s.ready[i] = e

Min(X) == CHOOSE x \in X : \A y \in X : x <= y

\* -------------------------------------------------- asyncio Task.cancel()
\* A finished task: nothing.  The running task itself (me): the request is
\* kept and raised at its next suspension.  A task already in the queue: the
\* request is raised when it runs.  A suspended task: its wait is cancelled
\* and it is queued to run with the CancelledError.
CancelTask(s, t, me) ==
    IF s.tasks[t].pc = "none" THEN s
    ELSE [s EXCEPT !.tasks[t].cancel = TRUE,
                   !.ready = IF LoopEntry(t) = me \/ InReady(s, LoopEntry(t))
                             THEN @ ELSE Append(@, LoopEntry(t))]

CancelTimer(s, n, me) ==
    IF s.timers[n].pc = "none" THEN s
    ELSE [s EXCEPT !.timers[n].cancel = TRUE,
                   !.ready = IF TimerEntry(n) = me \/ InReady(s, TimerEntry(n))
                             THEN @ ELSE Append(@, TimerEntry(n))]

\* ------------------------------------------------------------ VoiceManager
\* The after-callback of a source that ends or is stopped sets the
\* playback_finished event of the loop that started it; a loop waiting on
\* the event is queued to run.  A source started by a seek has an event
\* nobody waits on (waiter None).
FireAfter(s) ==
    LET w == s.audio.waiter IN
    IF w # None /\ s.tasks[w].pc = "wait" /\ ~InReady(s, LoopEntry(w))
    THEN [s EXCEPT !.ready = Append(@, LoopEntry(w)), !.audio = NoAudio]
    ELSE [s EXCEPT !.audio = NoAudio]

StopAudio(s) == IF s.audio.on THEN FireAfter(s) ELSE s

IsPlaying(s) == s.audio.on

IsConnected(s) == s.connected

\* play_audio returns False without a voice connection; otherwise it stops
\* what is playing and plays the new source.
PlayAudioOk(s) == s.connected

PlayAudio(s, song, waiter) ==
    IF ~PlayAudioOk(s) THEN s
    ELSE [StopAudio(s) EXCEPT !.audio = [on |-> TRUE, song |-> song, waiter |-> waiter,
                                         seek |-> waiter = None]]

\* ------------------------------------------------------------ QueueManager
FreeSongs(s) == SongIds \ UsedSongsOf(s)

AddSong(s, song) == [s EXCEPT !.queue = Append(@, song)]

\* get_next_song: the head of the queue becomes the current song; with an
\* empty queue there is no current song.
GetNextSong(s) ==
    IF s.queue = <<>> THEN [s EXCEPT !.current_song = None]
    ELSE [s EXCEPT !.current_song = Head(s.queue), !.queue = Tail(@)]

GetCurrentSong(s) == s.current_song

ClearQueue(s) == [s EXCEPT !.queue = <<>>]

\* jump_to_position (1-indexed): an invalid position changes nothing; a
\* valid one drops the songs before it, so that the song is next.
JumpValid(s, position) == position >= 1 /\ position <= Len(s.queue)

QueueJump(s, position) ==
    IF JumpValid(s, position)
    THEN [s EXCEPT !.queue = SubSeq(@, position, Len(@))]
    ELSE s

\* ------------------------------------------------- MusicPlayer: timing maps
\* Which timing entries the guild has after _start_playback_timing,
\* _stop_playback_timing and _update_timing_after_seek (their values are
\* modelled by the operators of the timing specification).
StartTimingEntries(s) ==
    [s EXCEPT !.has_start = TRUE, !.has_total = TRUE, !.has_paused = FALSE]

StopTimingEntries(s) ==
    [s EXCEPT !.has_start = FALSE, !.has_paused = FALSE, !.has_total = FALSE]

SeekTimingEntries(s) ==
    [s EXCEPT !.has_start = TRUE, !.has_total = TRUE, !.has_paused = FALSE]

CleanupCurrentAudio(s) == [s EXCEPT !.current_audio_file = None]

\* ------------------------------------------- MusicPlayer: inactivity timer
ResetInactivityTimer(s, me) ==
    LET s1 == IF s.inactivity_timer # None
              THEN [CancelTimer(s, s.inactivity_timer, me)
                        EXCEPT !.inactivity_timer = None]
              ELSE s
    IN [s1 EXCEPT !.has_last_activity = TRUE]

FreeTimers(s) == {n \in TimerIds : s.timers[n].pc = "none"}

StartInactivityTimer(s, me) ==
    LET s1 == IF s.inactivity_timer # None
              THEN CancelTimer(s, s.inactivity_timer, me)
              ELSE s
    IN IF FreeTimers(s1) = {} THEN [s1 EXCEPT !.inBounds = FALSE]
       ELSE LET n == Min(FreeTimers(s1)) IN
            [s1 EXCEPT !.timers[n] = [pc |-> "new", cancel |-> FALSE],
                       !.ready = Append(@, TimerEntry(n)),
                       !.inactivity_timer = n]

StopInactivityTimer(s, me) ==
    IF s.inactivity_timer # None
    THEN [CancelTimer(s, s.inactivity_timer, me) EXCEPT !.inactivity_timer = None]
    ELSE s

CleanupGuildState(s, me) ==
    LET s1 == IF s.playback_task # None
              THEN [CancelTask(s, s.playback_task, me) EXCEPT !.playback_task = None]
              ELSE s
        s2 == CleanupCurrentAudio(s1)
        s3 == StopTimingEntries(s2)
        s4 == StopInactivityTimer(s3, me)
    IN [s4 EXCEPT !.has_last_activity = FALSE]

FreeTasks(s) == {t \in TaskIds : s.tasks[t].pc = "none"}

StartPlayback(s, me) ==
    IF s.playback_task # None THEN s
    ELSE LET s1 == ResetInactivityTimer(s, me) IN
         IF FreeTasks(s1) = {} THEN [s1 EXCEPT !.inBounds = FALSE]
         ELSE LET t == Min(FreeTasks(s1)) IN
              [s1 EXCEPT !.tasks[t] = [pc |-> "new", song |-> None, cancel |-> FALSE],
                         !.ready = Append(@, LoopEntry(t)),
                         !.playback_task = t]

\* ------------------------------------------- MusicPlayer: the playback loop
\* The finally-block of _playback_loop; the task is finished after it.
LoopFinally(s, t) ==
    LET s1 == IF s.playback_task # None THEN [s EXCEPT !.playback_task = None] ELSE s
        s2 == CleanupCurrentAudio(s1)
    IN [s2 EXCEPT !.tasks[t] = NoTask,
                  !.audio.waiter = IF @ = t THEN None ELSE @]

\* The top of the while-loop: take the next song and suspend in its
\* download or validation; with an empty queue start the inactivity timer,
\* break and run the finally-block.
LoopIter(s, t) ==
    LET s1 == GetNextSong(s) IN
    IF s.queue = <<>>
    THEN LoopFinally(StartInactivityTimer(s1, LoopEntry(t)), t)
    ELSE [s1 EXCEPT !.tasks[t] = [pc |-> "download", song |-> s1.current_song,
                                  cancel |-> FALSE]]

\* After the download: outcome "fail" (download or validation failed, or no
\* file path), "raise" (creating the FFmpeg source raises) or "ok".
LoopAfterDownload(s, t, outcome) ==
    LET song == s.tasks[t].song IN
    IF outcome = "fail" THEN LoopIter(s, t)
    ELSE LET s1 == [s EXCEPT !.current_audio_file = song] IN
         IF outcome = "raise" THEN LoopFinally(s1, t)
         ELSE IF ~PlayAudioOk(s1) THEN LoopIter(CleanupCurrentAudio(s1), t)
         ELSE [StartTimingEntries(PlayAudio(s1, song, t))
                   EXCEPT !.tasks[t].pc = "wait"]

\* After playback_finished.wait() returned.
LoopAfterWait(s, t) ==
    LoopIter(CleanupCurrentAudio(StopTimingEntries(s)), t)

\* One run of the loop task, from where it is suspended to its next
\* suspension.  A task cancelled before its first run never runs its body;
\* a later cancellation raises CancelledError in the try-block.
LoopStep(s, t, outcome) ==
    LET pc == s.tasks[t].pc IN
    IF pc = "new" THEN (IF s.tasks[t].cancel THEN [s EXCEPT !.tasks[t] = NoTask]
                        ELSE LoopIter(s, t))
    ELSE IF s.tasks[t].cancel THEN LoopFinally(s, t)
    ELSE IF pc = "download" THEN LoopAfterDownload(s, t, outcome)
    ELSE LoopAfterWait(s, t)

\* ----------------------------------- MusicPlayer: the inactivity timer task
\* The finally-block of _inactivity_timer_task; the task is finished after it.
TimerFinally(s, n) ==
    LET s1 == IF s.inactivity_timer # None THEN [s EXCEPT !.inactivity_timer = None]
              ELSE s
    IN [s1 EXCEPT !.timers[n] = NoTimer]

\* The sleep completed: clean up and disconnect if connected and idle.  The
\* task suspends in disconnect_from_guild; a cancel request made on the
\* running task is raised at that suspension.
TimerExpired(s, n) ==
    IF IsConnected(s) /\ ~IsPlaying(s)
    THEN LET s1 == CleanupGuildState(s, TimerEntry(n)) IN
         [s1 EXCEPT !.timers[n].pc = "disc",
                    !.ready = IF s1.timers[n].cancel THEN Append(@, TimerEntry(n))
                              ELSE @]
    ELSE TimerFinally(s, n)

\* The disconnect completes unless the CancelledError is raised in it.
DisconnectFromGuild(s) == [StopAudio(s) EXCEPT !.connected = FALSE]

TimerStep(s, n) ==
    LET pc == s.timers[n].pc IN
    IF pc = "new" THEN (IF s.timers[n].cancel THEN [s EXCEPT !.timers[n] = NoTimer]
                        ELSE [s EXCEPT !.timers[n].pc = "sleep"])
    ELSE IF s.timers[n].cancel THEN TimerFinally(s, n)
    ELSE IF pc = "sleep" THEN TimerExpired(s, n)
    ELSE TimerFinally(DisconnectFromGuild(s), n)

\* ------------------------------------------- MusicPlayer: public operations
Result(op, ok, msg) == [op |-> op, ok |-> ok, escaped |-> FALSE, msg |-> msg]
Escaped(op) == [op |-> op, ok |-> FALSE, escaped |-> TRUE, msg |-> FALSE]

AddSongToQueueResetFirst(s, outcome, me) ==
    IF outcome # "info" THEN ResetInactivityTimer(s, me)
    ELSE IF FreeSongs(s) = {} THEN [s EXCEPT !.inBounds = FALSE]
    ELSE LET s1 == ResetInactivityTimer(AddSong(s, Min(FreeSongs(s))), me)
         IN IF ~IsPlaying(s1) THEN StartPlayback(s1, me) ELSE s1

\* add_song_to_queue after extract_audio_info returned: outcome "none" (no
\* info), "raise" (the queue manager raises) or "info".
AddSongToQueue(s, outcome, me) ==
    IF outcome # "info" THEN s
    ELSE IF FreeSongs(s) = {} THEN [s EXCEPT !.inBounds = FALSE]
    ELSE LET s1 == AddSong(s, Min(FreeSongs(s)))
             s2 == ResetInactivityTimer(s1, me)
         IN IF ~IsPlaying(s2) THEN StartPlayback(s2, me) ELSE s2

\* connect_to_user_channel after connect_to_voice_channel returned: outcome
\* "client", "none" (no voice client) or "raise".
ConnectToUserChannel(s, outcome, me) ==
    IF outcome = "client"
    THEN ResetInactivityTimer([s EXCEPT !.connected = TRUE], me)
    ELSE s

ConnectResult(outcome) ==
    IF outcome = "client" THEN Result("connect", TRUE, FALSE)
    ELSE IF outcome = "none" THEN Result("connect", FALSE, TRUE)
    ELSE Escaped("connect")

SkipOk(s, raise) == ~raise /\ GetCurrentSong(s) # None

SkipCurrentSong(s, raise) ==
    IF SkipOk(s, raise) THEN CleanupCurrentAudio(StopAudio(s)) ELSE s

\* stop_playback up to its await of disconnect_from_guild.
StopPlaybackBegin(s, me) == CleanupGuildState(ClearQueue(StopAudio(s)), me)

\* stop_playback after disconnect_from_guild: it returned, or raised.
StopPlaybackEnd(s, raise) == IF raise THEN s ELSE DisconnectFromGuild(s)

JumpOk(s, position, raise) == ~raise /\ JumpValid(s, position)

JumpToPosition(s, position, raise) ==
    LET s1 == CleanupCurrentAudio(StopAudio(s)) IN
    IF raise THEN s1 ELSE QueueJump(s1, position)

\* _perform_seek: ffraise when creating the FFmpeg source raises.
PerformSeekOk(s, ffraise) ==
    s.current_audio_file # None /\ ~ffraise /\ PlayAudioOk(s)

PerformSeek(s, ffraise) ==
    IF s.current_audio_file = None THEN s
    ELSE LET s1 == StopAudio(s) IN
         IF ffraise THEN s1
         ELSE PlayAudio(SeekTimingEntries(s1), s1.current_audio_file, None)

\* seek_to_position: valid when the time string parses and the position is
\* within the song.
SeekOk(s, valid, ffraise) ==
    IsConnected(s) /\ GetCurrentSong(s) # None /\ valid /\ PerformSeekOk(s, ffraise)

SeekToPosition(s, valid, ffraise) ==
    IF IsConnected(s) /\ GetCurrentSong(s) # None /\ valid
    THEN PerformSeek(s, ffraise)
    ELSE s

\* ------------------------------------------------------------------ actions
IsHandler(e) == e.k \notin {"loop", "timer"}

HandlersInFlight ==
    Cardinality({i \in 1..Len(ready) : IsHandler(ready[i])})
        + waiting.add + waiting.connect + waiting.stop

Runs(e) == ready # <<>> /\ Me = e

\* An external event (a command, an I/O completion, the end of a source, a
\* timeout) arrives while the backlog of the event loop is short.
Arrives == Len(ready) < MaxReady

\* A command arrives: discord.py starts its handler as a task.
Command ==
    /\ Arrives
    /\ HandlersInFlight < MaxHandlers
    /\ \E kind \in {"add", "connect", "skip", "stop", "jump", "seek"} :
         Commit([S EXCEPT !.ready = Append(@, HandlerEntry(kind, "start"))],
                NoResult, skipped)

\* add_song_to_queue up to its await of extract_audio_info.
RunAddStart ==
    /\ Runs(HandlerEntry("add", "start"))
    /\ \E source \in {"youtube", "catbox", "unsupported"} :
         IF source = "unsupported"
         THEN Commit(Popped, Result("add", FALSE, TRUE), skipped)
         ELSE Commit([Popped EXCEPT !.waiting.add = @ + 1], NoResult, skipped)

ExtractDone ==
    /\ Arrives
    /\ waiting.add > 0
    /\ Commit([S EXCEPT !.waiting.add = @ - 1,
                        !.ready = Append(@, HandlerEntry("add", "resume"))],
              NoResult, skipped)

RunAddResume ==
    /\ Runs(HandlerEntry("add", "resume"))
    /\ \E outcome \in {"info", "none", "raise"} :
         Commit(AddSongToQueue(Popped, outcome, Me),
                Result("add", outcome = "info", outcome # "info"), skipped)

\* connect_to_user_channel up to its await of connect_to_voice_channel.
RunConnectStart ==
    /\ Runs(HandlerEntry("connect", "start"))
    /\ \E inVoiceChannel \in BOOLEAN :
         IF inVoiceChannel
         THEN Commit([Popped EXCEPT !.waiting.connect = @ + 1], NoResult, skipped)
         ELSE Commit(Popped, Result("connect", FALSE, TRUE), skipped)

ConnectDone ==
    /\ Arrives
    /\ waiting.connect > 0
    /\ Commit([S EXCEPT !.waiting.connect = @ - 1,
                        !.ready = Append(@, HandlerEntry("connect", "resume"))],
              NoResult, skipped)

RunConnectResume ==
    /\ Runs(HandlerEntry("connect", "resume"))
    /\ \E outcome \in {"client", "none", "raise"} :
         Commit(ConnectToUserChannel(Popped, outcome, Me),
                ConnectResult(outcome), skipped)

RunSkip ==
    /\ Runs(HandlerEntry("skip", "start"))
    /\ \E raise \in BOOLEAN :
         Commit(SkipCurrentSong(Popped, raise),
                Result("skip", SkipOk(Popped, raise), ~SkipOk(Popped, raise)),
                IF SkipOk(Popped, raise) THEN GetCurrentSong(Popped) ELSE skipped)

\* stop_playback up to disconnect_from_guild, which returns at once when
\* there is no voice connection.
RunStopStart ==
    /\ Runs(HandlerEntry("stop", "start"))
    /\ LET s1 == StopPlaybackBegin(Popped, Me) IN
       IF IsConnected(s1)
       THEN Commit([s1 EXCEPT !.waiting.stop = @ + 1], NoResult, skipped)
       ELSE Commit(s1, Result("stop", TRUE, FALSE), skipped)

StopDisconnectDone ==
    /\ Arrives
    /\ waiting.stop > 0
    /\ Commit([S EXCEPT !.waiting.stop = @ - 1,
                        !.ready = Append(@, HandlerEntry("stop", "resume"))],
              NoResult, skipped)

RunStopResume ==
    /\ Runs(HandlerEntry("stop", "resume"))
    /\ \E raise \in BOOLEAN :
         Commit(StopPlaybackEnd(Popped, raise), Result("stop", ~raise, raise), skipped)

RunJump ==
    /\ Runs(HandlerEntry("jump", "start"))
    /\ \E position \in 0..(MaxSongs + 1), raise \in BOOLEAN :
         Commit(JumpToPosition(Popped, position, raise),
                Result("jump", JumpOk(Popped, position, raise),
                       ~JumpOk(Popped, position, raise)),
                skipped)

RunSeek ==
    /\ Runs(HandlerEntry("seek", "start"))
    /\ \E valid \in BOOLEAN, ffraise \in BOOLEAN :
         Commit(SeekToPosition(Popped, valid, ffraise),
                Result("seek", SeekOk(Popped, valid, ffraise),
                       ~SeekOk(Popped, valid, ffraise)),
                skipped)

\* The playback-loop task at the head of the queue runs.
RunLoop ==
    \E t \in TaskIds :
        /\ Runs(LoopEntry(t))
        /\ \E outcome \in {"ok", "fail", "raise"} :
             Commit(LoopStep(Popped, t, outcome), NoResult, skipped)

\* The download or validation of the loop's song completes.
DownloadDone ==
    \E t \in TaskIds :
        /\ Arrives
        /\ tasks[t].pc = "download"
        /\ ~InReady(S, LoopEntry(t))
        /\ Commit([S EXCEPT !.ready = Append(@, LoopEntry(t))], NoResult, skipped)

\* The audio source reaches its end.
AudioEnds ==
    /\ Arrives
    /\ audio.on
    /\ Commit(FireAfter(S), NoResult, skipped)

\* The inactivity-timer task at the head of the queue runs.
RunTimer ==
    \E n \in TimerIds :
        /\ Runs(TimerEntry(n))
        /\ Commit(TimerStep(Popped, n), NoResult, skipped)

\* asyncio.sleep(timeout_seconds) completes.
SleepTimeout ==
    \E n \in TimerIds :
        /\ Arrives
        /\ timers[n].pc = "sleep"
        /\ ~InReady(S, TimerEntry(n))
        /\ Commit([S EXCEPT !.ready = Append(@, TimerEntry(n))], NoResult, skipped)

\* The disconnect awaited by a timer task completes.
TimerDisconnectDone ==
    \E n \in TimerIds :
        /\ Arrives
        /\ timers[n].pc = "disc"
        /\ ~InReady(S, TimerEntry(n))
        /\ Commit([S EXCEPT !.ready = Append(@, TimerEntry(n))], NoResult, skipped)

\* The timing maps start empty (music_player.py __init__).  t_seek records
\* the last seek since playback timing was started or stopped: its target,
\* whether a pause was in effect when it was made, the clock ticks since it
\* that passed outside a pause, whether a pause is in effect now, and
\* whether the seek was the last step.
NoPosition == -1
NoSeek == [target |-> NoPosition, fromPaused |-> FALSE, unpaused |-> 0,
           pausing |-> FALSE, fresh |-> FALSE]

\* t_play records the calls made since the last _start_playback_timing:
\* whether they were only pauses and resumes (pure), the clock ticks since
\* the start and those of them spent paused, the instant of the first pause
\* call of the pause in progress, whether a later pause call was made at a
\* later instant during the same pause, and the last call.
NoPlay == [pure |-> FALSE, since |-> 0, paused |-> 0, first |-> NoPosition,
           repaused |-> FALSE, op |-> "none"]

TimingInit ==
    /\ tclock = 0
    /\ t_start = <<>>
    /\ t_paused = <<>>
    /\ t_total = <<>>
    /\ t_seek = NoSeek
    /\ t_play = NoPlay

\* The per-guild maps start empty (music_player.py __init__); actor is the
\* guild the last operation was invoked for (None before any, and for
\* cleanup_all).
GuildsInit ==
    guilds = [queue_managers |-> <<>>, playback_tasks |-> <<>>,
              current_audio_files |-> <<>>, playback_start_times |-> <<>>,
              playback_paused_times |-> <<>>, total_paused_duration |-> <<>>,
              inactivity_timers |-> <<>>, last_activity_times |-> <<>>,
              actor |-> None]

\* No probe has been made.
ProbeInit ==
    probe = [pc |-> "idle", default |-> FALSE, max_retries |-> 0, attempt |-> 0,
             requests |-> 0, waits |-> <<>>, result |-> "none", status |-> 0]

\* logging.getLogger("similubot") before any setup: no handlers, level
\* NOTSET, propagate True.
LoggerInit ==
    logcfg = [handlers |-> <<>>, level |-> 0, propagate |-> TRUE,
              outcome |-> "none", name |-> "", file |-> "none", prior |-> 0]

\* SeekResult(success, target_position, error_message); NoTarget stands for
\* a target_position of None and "" for an error_message of None.
NoTarget == -999999999
SeekResult(success, target_position, error_message) ==
    [success |-> success, target_position |-> target_position,
     error_message |-> error_message, raised |-> ""]

\* No SeekManager function is being called.
SeekIdle ==
   [op |-> "none", text |-> <<>>, n |-> 0,
    result |-> SeekResult(FALSE, NoTarget, ""), relative |-> FALSE,
    formatted |-> <<>>, duration |-> <<>>,
    parts |-> [kind |-> "none", sign |-> <<>>, hh |-> <<>>,
               mm |-> <<>>, ss |-> <<>>],
    current |-> NoPosition, song_duration |-> 0,
    performed |-> NoTarget, message |-> ""]

SeekInit == seekq = SeekIdle

\* YouTubeClient.__init__(temp_dir, config): the configuration manager, or
\* none; no method has succeeded yet; no _create_youtube_object call is in
\* progress.  A configuration that is absent has no options.
NoConfig ==
    [present |-> FALSE, potoken |-> FALSE, auto_generate |-> FALSE,
     auto_fallback |-> FALSE, web_client |-> FALSE]

NoKwargs == [client |-> "", use_po_token |-> FALSE, on_progress_callback |-> FALSE]

YouTubeClient(config) ==
    [config |-> config, last_successful_method |-> "", pc |-> "idle",
     callback |-> FALSE, attempt |-> 0, kwargs |-> NoKwargs, made |-> <<>>,
     errors |-> <<>>, raised |-> <<>>]

InitOf(config) ==
    /\ queue = <<>>
    /\ current_song = None
    /\ connected = FALSE
    /\ audio = NoAudio
    /\ playback_task = None
    /\ current_audio_file = None
    /\ has_start = FALSE
    /\ has_paused = FALSE
    /\ has_total = FALSE
    /\ inactivity_timer = None
    /\ has_last_activity = FALSE
    /\ tasks = [t \in TaskIds |-> NoTask]
    /\ timers = [n \in TimerIds |-> NoTimer]
    /\ ready = <<>>
    /\ waiting = [add |-> 0, connect |-> 0, stop |-> 0]
    /\ last = NoResult
    /\ skipped = None
    /\ TimingInit
    /\ GuildsInit
    /\ ProbeInit
    /\ LoggerInit
    /\ SeekInit
    /\ ytc = YouTubeClient(config)

Init == InitOf(NoConfig)

Next ==
    \/ Command
    \/ RunAddStart
    \/ ExtractDone
    \/ RunAddResume
    \/ RunConnectStart
    \/ ConnectDone
    \/ RunConnectResume
    \/ RunSkip
    \/ RunStopStart
    \/ StopDisconnectDone
    \/ RunStopResume
    \/ RunJump
    \/ RunSeek
    \/ RunLoop
    \/ DownloadDone
    \/ AudioEnds
    \/ RunTimer
    \/ SleepTimeout
    \/ TimerDisconnectDone

Spec == Init /\ [][Next]_vars

\* =================================================== orchestration properties
\* A playback loop that has begun to run, is not finished and has no
\* cancellation pending; an inactivity timer that sleeps with none pending.
LiveTask(t) == tasks[t].pc \in {"download", "wait"} /\ ~tasks[t].cancel
LiveTimer(n) == timers[n].pc = "sleep" /\ ~timers[n].cancel

\* No command handler is queued or suspended, and no callback is queued.
Quiescent ==
    ready = <<>> /\ waiting.add = 0 /\ waiting.connect = 0 /\ waiting.stop = 0

\* C1: at most one playback-loop task of the guild is alive at any time, and
\* a live one is the task registered in _playback_tasks.
C1_OnePlaybackLoop ==
    \A t \in TaskIds :
        LiveTask(t) =>
            /\ playback_task = t
            /\ \A u \in TaskIds : LiveTask(u) => u = t

\* C2: at most one inactivity-timer task of the guild is alive (sleeping) at
\* any time, and a live one is the task registered in _inactivity_timers.
C2_OneInactivityTimer ==
    \A n \in TimerIds :
        LiveTimer(n) =>
            /\ inactivity_timer = n
            /\ \A m \in TimerIds : LiveTimer(m) => m = n

\* C3: one active song per guild: in a step in which the playing audio source
\* keeps playing, the queue manager's current song does not change (no loop
\* takes another song), and a playing source is replaced by another one
\* only by a seek.
C3_OneActiveSong ==
    [][audio.on =>
          /\ (audio' = audio => current_song' = current_song)
          /\ (audio'.on /\ audio' # audio /\ audio'.waiter # audio.waiter
                  => audio'.seek)]_vars

\* C4: auto-disconnect: a timer task that expired while the guild was
\* connected and idle, and so began disconnect_from_guild, finishes with the
\* guild disconnected.
C4_AutoDisconnectCompletes ==
    [][\A n \in TimerIds :
          timers[n].pc = "disc" /\ timers'[n].pc = "none" => ~connected']_vars

\* C5: while the audio source re-started by a successful seek is playing,
\* the song it plays is still the current song, and the guild keeps its
\* current-audio-file entry and its playback-timing entries.
C5_SeekKeepsCurrentSong ==
    audio.on /\ audio.seek =>
        /\ current_song = audio.song
        /\ current_audio_file = audio.song
        /\ has_start
        /\ has_total

\* C7: the song a successful skip_current_song reported is not played
\* afterwards.
C7_SkippedSongNotPlayed ==
    skipped # None => ~(audio.on /\ audio.song = skipped)

\* C8: no song is left in the queue with no playback-loop task existing for
\* the guild and nothing in flight that will start one.
C8_QueuedSongHasLoop ==
    queue # <<>> /\ Quiescent => \E t \in TaskIds : tasks[t].pc # "none"

\* C9: when stop_playback returns success, the queue is empty, audio is
\* stopped, the voice connection is disconnected and the guild has no entry
\* in any of the per-guild maps.
C9_StopPostcondition ==
    last.op = "stop" /\ last.ok =>
        /\ queue = <<>>
        /\ ~audio.on
        /\ ~connected
        /\ playback_task = None
        /\ current_audio_file = None
        /\ ~has_start
        /\ ~has_paused
        /\ ~has_total
        /\ inactivity_timer = None
        /\ ~has_last_activity

\* C10: no public operation lets an exception of a collaborator escape; a
\* failed operation returns success = False with a message.
C10_ErrorsCaught ==
    last.op # "none" => ~last.escaped /\ (~last.ok => last.msg)

\* The guild's entries in the per-guild maps of MusicPlayer.
GuildMaps == <<playback_task, current_audio_file, has_start, has_paused,
               has_total, inactivity_timer, has_last_activity>>

\* C11: while the guild's registered playback task is alive, the guild's
\* entries in the per-guild maps are changed only by steps of that task.
C11_MapsMutatedByOwnTask ==
    [][(playback_task # None /\ LiveTask(playback_task)
            /\ GuildMaps' # GuildMaps)
          => Runs(LoopEntry(playback_task))]_vars

\* ========================================================== timing model
\* The timing maps with their values, for guild G, against a clock of whole
\* ticks (time.time() and every difference of its readings are multiples of
\* the float spacing, so the arithmetic of the code is exact).  A dict is a
\* function whose domain holds the guild when it has an entry.
MaxClock == 4      \* clock readings 0..MaxClock
MaxTarget == 3     \* seek targets 0..MaxTarget

G == 1
NoEntry == <<>>
Entry(v) == <<v>>
Has(d) == G \in DOMAIN d
Max(a, b) == IF a >= b THEN a ELSE b

TS == [start |-> t_start, paused |-> t_paused, total |-> t_total]

GetCurrentPlaybackPositionIgnoringPause(ts, now) ==
    IF ~Has(ts.start) THEN NoPosition
    ELSE Max(0, (now - ts.start[G]) - (IF Has(ts.total) THEN ts.total[G] ELSE 0))

PausePlaybackTimingUnguarded(ts, now) ==
    [ts EXCEPT !.paused = Entry(now)]

StopPlaybackTimingStartOnly(ts) == [ts EXCEPT !.start = NoEntry]

GetCurrentPlaybackPosition(ts, now) ==
    IF ~Has(ts.start) THEN NoPosition
    ELSE LET elapsed == now - ts.start[G]
             total_paused == (IF Has(ts.total) THEN ts.total[G] ELSE 0)
                             + (IF Has(ts.paused) THEN now - ts.paused[G] ELSE 0)
         IN Max(0, elapsed - total_paused)

StartPlaybackTiming(ts, now) ==
    [start |-> Entry(now), total |-> Entry(0), paused |-> NoEntry]

PausePlaybackTiming(ts, now) ==
    IF Has(ts.start) /\ ~Has(ts.paused) THEN [ts EXCEPT !.paused = Entry(now)]
    ELSE ts

ResumePlaybackTiming(ts, now) ==
    IF Has(ts.paused)
    THEN [ts EXCEPT !.total = Entry((IF Has(ts.total) THEN ts.total[G] ELSE 0)
                                    + (now - ts.paused[G])),
                    !.paused = NoEntry]
    ELSE ts

StopPlaybackTiming(ts) == [start |-> NoEntry, paused |-> NoEntry, total |-> NoEntry]

UpdateTimingAfterSeekMissingReset(ts, now, target_seconds) ==
    [ts EXCEPT !.start = Entry(now - target_seconds)]

UpdateTimingAfterSeek(ts, now, target_seconds) ==
    [start |-> Entry(now - target_seconds), total |-> Entry(0), paused |-> NoEntry]

\* The calls as t_play records them.
Played(op) == [NoPlay EXCEPT !.op = op]

PlayTick ==
    [t_play EXCEPT !.op = "tick",
                   !.since = IF t_play.pure THEN @ + 1 ELSE @,
                   !.paused = IF t_play.pure /\ t_play.first # NoPosition
                              THEN @ + 1 ELSE @]

PlayStart == [Played("start") EXCEPT !.pure = TRUE]

PlayPause ==
    IF ~Has(t_start) THEN [t_play EXCEPT !.op = "pause"]
    ELSE IF t_play.first = NoPosition
    THEN [t_play EXCEPT !.op = "pause", !.first = tclock, !.repaused = FALSE]
    ELSE [t_play EXCEPT !.op = "pause",
                        !.repaused = @ \/ tclock > t_play.first]

PlayResume == [t_play EXCEPT !.op = "resume", !.first = NoPosition]

TCommit(ts, seek) ==
    /\ t_start' = ts.start
    /\ t_paused' = ts.paused
    /\ t_total' = ts.total
    /\ t_seek' = seek
    /\ UNCHANGED <<ovars, xvars>>

Tick ==
    /\ tclock < MaxClock
    /\ tclock' = tclock + 1
    /\ t_play' = PlayTick
    /\ TCommit(TS, [t_seek EXCEPT !.fresh = FALSE,
                                  !.unpaused = IF t_seek.pausing THEN @ ELSE @ + 1])

TStart ==
    /\ tclock' = tclock
    /\ t_play' = PlayStart
    /\ TCommit(StartPlaybackTiming(TS, tclock), NoSeek)

TPause ==
    /\ tclock' = tclock
    /\ t_play' = PlayPause
    /\ TCommit(PausePlaybackTiming(TS, tclock),
               [t_seek EXCEPT !.fresh = FALSE, !.pausing = TRUE])

TResume ==
    /\ tclock' = tclock
    /\ t_play' = PlayResume
    /\ TCommit(ResumePlaybackTiming(TS, tclock),
               [t_seek EXCEPT !.fresh = FALSE, !.pausing = FALSE])

TStop ==
    /\ tclock' = tclock
    /\ t_play' = Played("stop")
    /\ TCommit(StopPlaybackTiming(TS), NoSeek)

TSeek ==
    /\ tclock' = tclock
    /\ t_play' = Played("seek")
    /\ \E target \in 0..MaxTarget :
         TCommit(UpdateTimingAfterSeek(TS, tclock, target),
                 [target |-> target, fromPaused |-> Has(t_paused), unpaused |-> 0,
                  pausing |-> FALSE, fresh |-> TRUE])

\* _cleanup_guild_state, as far as the timing maps go: _stop_playback_timing.
TCleanupGuild ==
    /\ tclock' = tclock
    /\ t_play' = Played("cleanup")
    /\ TCommit(StopPlaybackTiming(TS), NoSeek)

\* cleanup_all, as far as the timing maps go: each of the three is cleared.
ClearTimingMaps(ts) == [start |-> NoEntry, paused |-> NoEntry, total |-> NoEntry]

TCleanupAll ==
    /\ tclock' = tclock
    /\ t_play' = Played("cleanup_all")
    /\ TCommit(ClearTimingMaps(TS), NoSeek)

TNext ==
    \/ Tick \/ TStart \/ TPause \/ TResume \/ TStop \/ TSeek
    \/ TCleanupGuild \/ TCleanupAll

SpecTiming == Init /\ [][TNext]_vars

\* C6: after _update_timing_after_seek(g, t), made in any timing state, the
\* position reported is t plus the clock time that passed since the seek
\* outside a pause; right after the seek (no clock advance) it is exactly t,
\* the accumulated paused duration is 0 and no pause is in effect.
C6_SeekTimingModel ==
    t_seek.target # NoPosition =>
        /\ GetCurrentPlaybackPosition(TS, tclock) = t_seek.target + t_seek.unpaused
        /\ t_seek.fresh =>
              /\ GetCurrentPlaybackPosition(TS, tclock) = t_seek.target
              /\ Has(t_total) /\ t_total[G] = 0
              /\ ~Has(t_paused)

\* A seek to a position > 0 made during a pause, after which the clock
\* advanced both outside and inside a later pause.
C6_SeekFromPausedThenPaused ==
    /\ t_seek.target > 0
    /\ t_seek.fromPaused
    /\ t_seek.unpaused > 0
    /\ t_seek.pausing
    /\ Has(t_paused) /\ tclock > t_paused[G]

\* C18: after calls of _start_playback_timing, _pause_playback_timing and
\* _resume_playback_timing only, the position reported is the clock time
\* since the start minus the time spent paused (the pause in progress
\* included); it does not change when the clock advances during a pause,
\* and a resume does not change it.
C18_PausedTimeExcluded ==
    /\ [](t_play.pure =>
            GetCurrentPlaybackPosition(TS, tclock) = t_play.since - t_play.paused)
    /\ [][(t_play.pure /\ t_play'.op = "tick" /\ Has(t_paused)) =>
            GetCurrentPlaybackPosition(TS, tclock)' =
                GetCurrentPlaybackPosition(TS, tclock)]_vars
    /\ [][(t_play.pure /\ t_play'.op = "resume") =>
            GetCurrentPlaybackPosition(TS, tclock)' =
                GetCurrentPlaybackPosition(TS, tclock)]_vars

\* Playback was paused for a while, resumed, went on, and is paused again
\* with the clock advancing.
C18_SecondPauseInProgress ==
    /\ t_play.pure
    /\ t_play.op = "tick"
    /\ Has(t_paused) /\ tclock > t_paused[G]
    /\ Has(t_total) /\ t_total[G] > 0
    /\ t_play.since > t_play.paused
    /\ t_play.paused > t_total[G]

\* C19: a pause call on a guild that is already paused, or that has no
\* start time, changes no timing entry; a resume call on a guild that is
\* not paused changes none; a resume ending a pause adds to the total paused
\* duration the time since the first pause call of that pause, however many
\* pause calls followed it.
C19_PauseResumeGuarded ==
    [][/\ (t_play'.op = "pause" /\ (Has(t_paused) \/ ~Has(t_start))) => TS' = TS
       /\ (t_play'.op = "resume" /\ ~Has(t_paused)) => TS' = TS
       /\ (t_play'.op = "resume" /\ t_play.first # NoPosition) =>
             /\ Has(t_total) /\ Has(t_total')
             /\ t_total'[G] = t_total[G] + (tclock - t_play.first)
             /\ ~Has(t_paused')
             /\ t_start' = t_start]_vars

\* A resume has just ended a pause during which a second pause call was
\* made at a later instant, and time passed between that call and the
\* resume.
C19_ResumedAfterTwoPauses ==
    /\ t_play.op = "resume"
    /\ t_play.repaused
    /\ Has(t_total) /\ t_total[G] >= 2
    /\ ~Has(t_paused)

\* C20: a guild has a paused-time entry only if it has a start-time entry,
\* a total-paused-duration entry exactly if it has a start-time entry, and
\* a total paused duration that is not negative.
C20_TimingMapInvariant ==
    /\ Has(t_paused) => Has(t_start)
    /\ Has(t_total) <=> Has(t_start)
    /\ Has(t_total) => t_total[G] >= 0

\* All three entries are present, with time accumulated, after a seek was
\* followed by a pause, a resume and a new pause.
C20_AllEntriesAfterSeek ==
    /\ Has(t_start) /\ Has(t_paused) /\ Has(t_total)
    /\ t_total[G] > 0
    /\ t_seek.target # NoPosition

\* ==================================================== several-guild model
\* The per-guild maps as dicts keyed by guild id: a function whose domain is
\* the set of guilds that have an entry.  Each operation is the sequence of
\* dict accesses its code makes for the guild_id it is given; what the
\* voice client and the queue report is chosen freely.  Values other than
\* the activity time are modelled in the single-guild specifications.
GuildIds == 1..MaxGuilds

Del(d, g) == [k \in DOMAIN d \ {g} |-> d[k]]
Put(d, g, v) == [k \in DOMAIN d \cup {g} |-> IF k = g THEN v ELSE d[k]]

GGetQueueManager(m, g) ==
    IF g \in DOMAIN m.queue_managers THEN m
    ELSE [m EXCEPT !.queue_managers = Put(@, g, 0)]

GStartPlaybackTiming(m, g) ==
    [m EXCEPT !.playback_start_times = Put(@, g, 0),
              !.total_paused_duration = Put(@, g, 0),
              !.playback_paused_times = Del(@, g)]

GPausePlaybackTiming(m, g) ==
    IF g \in DOMAIN m.playback_start_times /\ g \notin DOMAIN m.playback_paused_times
    THEN [m EXCEPT !.playback_paused_times = Put(@, g, 0)]
    ELSE m

GResumePlaybackTiming(m, g) ==
    IF g \in DOMAIN m.playback_paused_times
    THEN [m EXCEPT !.total_paused_duration = Put(@, g, 0),
                   !.playback_paused_times = Del(@, g)]
    ELSE m

GStopPlaybackTiming(m, g) ==
    [m EXCEPT !.playback_start_times = Del(@, g),
              !.playback_paused_times = Del(@, g),
              !.total_paused_duration = Del(@, g)]

GUpdateTimingAfterSeek(m, g) ==
    [m EXCEPT !.playback_start_times = Put(@, g, 0),
              !.total_paused_duration = Put(@, g, 0),
              !.playback_paused_times = Del(@, g)]

GCleanupCurrentAudio(m, g) == [m EXCEPT !.current_audio_files = Del(@, g)]

GResetInactivityTimer(m, g, now) ==
    [m EXCEPT !.inactivity_timers = Del(@, g),
              !.last_activity_times = Put(@, g, now)]

GStartInactivityTimer(m, g) == [m EXCEPT !.inactivity_timers = Put(@, g, 0)]

GStopInactivityTimer(m, g) == [m EXCEPT !.inactivity_timers = Del(@, g)]

GCleanupGuildStateAllGuilds(m, g) ==
    [m EXCEPT !.playback_tasks = <<>>, !.current_audio_files = <<>>,
              !.playback_start_times = <<>>, !.playback_paused_times = <<>>,
              !.total_paused_duration = <<>>, !.inactivity_timers = <<>>,
              !.last_activity_times = <<>>]

GCleanupGuildState(m, g) ==
    LET m1 == [m EXCEPT !.playback_tasks = Del(@, g)]
        m2 == GCleanupCurrentAudio(m1, g)
        m3 == GStopPlaybackTiming(m2, g)
        m4 == GStopInactivityTimer(m3, g)
    IN [m4 EXCEPT !.last_activity_times = Del(@, g)]

GStartPlayback(m, g, now) ==
    IF g \in DOMAIN m.playback_tasks THEN m
    ELSE [GResetInactivityTimer(m, g, now) EXCEPT !.playback_tasks = Put(@, g, 0)]

GAddSongToQueue(m, g, now, playing) ==
    LET m1 == GGetQueueManager(m, g)
        m2 == [m1 EXCEPT !.queue_managers[g] = @ + 1]
        m3 == GResetInactivityTimer(m2, g, now)
    IN IF playing THEN m3 ELSE GStartPlayback(m3, g, now)

GConnectToUserChannel(m, g, now) == GResetInactivityTimer(m, g, now)

GSkipCurrentSong(m, g, has_current) ==
    LET m1 == GGetQueueManager(m, g) IN
    IF has_current THEN GCleanupCurrentAudio(m1, g) ELSE m1

GStopPlayback(m, g) ==
    LET m1 == GGetQueueManager(m, g) IN
    GCleanupGuildState([m1 EXCEPT !.queue_managers[g] = 0], g)

GJumpToPosition(m, g, valid) ==
    LET m1 == GCleanupCurrentAudio(GGetQueueManager(m, g), g) IN
    IF valid /\ m1.queue_managers[g] > 0 THEN [m1 EXCEPT !.queue_managers[g] = @ - 1]
    ELSE m1

GSeekToPosition(m, g, in_voice, ok) ==
    IF ~in_voice THEN m
    ELSE LET m1 == GGetQueueManager(m, g) IN
         IF ok /\ g \in DOMAIN m1.current_audio_files
         THEN GUpdateTimingAfterSeek(m1, g)
         ELSE m1

GLoopFinally(m, g) ==
    GCleanupCurrentAudio([m EXCEPT !.playback_tasks = Del(@, g)], g)

\* The loop of guild g from the top of its while-loop: with an empty queue
\* it starts the timer and ends; otherwise it takes a song and, when the
\* download and the start of the source succeed, records the file and
\* starts the timing.
GLoopIter(m, g, played) ==
    LET m1 == GGetQueueManager(m, g) IN
    IF m1.queue_managers[g] = 0 THEN GLoopFinally(GStartInactivityTimer(m1, g), g)
    ELSE LET m2 == [m1 EXCEPT !.queue_managers[g] = @ - 1] IN
         IF played
         THEN GStartPlaybackTiming(
                  [m2 EXCEPT !.current_audio_files = Put(@, g, 0)], g)
         ELSE m2

GLoopAfterWait(m, g) == GCleanupCurrentAudio(GStopPlaybackTiming(m, g), g)

GTimerExpired(m, g, idle) ==
    GStopInactivityTimer(IF idle THEN GCleanupGuildState(m, g) ELSE m, g)

GCleanupAll(m) ==
    [m EXCEPT !.queue_managers = <<>>, !.playback_tasks = <<>>,
              !.current_audio_files = <<>>, !.playback_start_times = <<>>,
              !.playback_paused_times = <<>>, !.total_paused_duration = <<>>,
              !.inactivity_timers = <<>>, !.last_activity_times = <<>>]

\* The maps after an operation invoked for guild g.
GAfter(m, g) == [m EXCEPT !.actor = g]

GAdd ==
    \E g \in GuildIds, now \in 1..MaxStamp, playing \in BOOLEAN :
        /\ GGetQueueManager(guilds, g).queue_managers[g] < MaxQueued
        /\ guilds' = GAfter(GAddSongToQueue(guilds, g, now, playing), g)
        /\ UNCHANGED <<ovars, tvars, probe, logcfg, seekq, ytc>>

GConnect ==
    \E g \in GuildIds, now \in 1..MaxStamp :
        /\ guilds' = GAfter(GConnectToUserChannel(guilds, g, now), g)
        /\ UNCHANGED <<ovars, tvars, probe, logcfg, seekq, ytc>>

GSkip ==
    \E g \in GuildIds, has_current \in BOOLEAN :
        /\ guilds' = GAfter(GSkipCurrentSong(guilds, g, has_current), g)
        /\ UNCHANGED <<ovars, tvars, probe, logcfg, seekq, ytc>>

GStop ==
    \E g \in GuildIds :
        /\ guilds' = GAfter(GStopPlayback(guilds, g), g)
        /\ UNCHANGED <<ovars, tvars, probe, logcfg, seekq, ytc>>

GJump ==
    \E g \in GuildIds, valid \in BOOLEAN :
        /\ guilds' = GAfter(GJumpToPosition(guilds, g, valid), g)
        /\ UNCHANGED <<ovars, tvars, probe, logcfg, seekq, ytc>>

GSeek ==
    \E g \in GuildIds, in_voice \in BOOLEAN, ok \in BOOLEAN :
        /\ guilds' = GAfter(GSeekToPosition(guilds, g, in_voice, ok), g)
        /\ UNCHANGED <<ovars, tvars, probe, logcfg, seekq, ytc>>

GPause ==
    \E g \in GuildIds :
        /\ guilds' = GAfter(GPausePlaybackTiming(guilds, g), g)
        /\ UNCHANGED <<ovars, tvars, probe, logcfg, seekq, ytc>>

GResume ==
    \E g \in GuildIds :
        /\ guilds' = GAfter(GResumePlaybackTiming(guilds, g), g)
        /\ UNCHANGED <<ovars, tvars, probe, logcfg, seekq, ytc>>

\* A step of the playback loop of guild g: from the top of the while-loop,
\* after playback_finished.wait(), or its finally-block.
GLoop ==
    \E g \in GuildIds, played \in BOOLEAN, at \in {"top", "waited", "finally"} :
        /\ g \in DOMAIN guilds.playback_tasks
        /\ guilds' = GAfter(IF at = "top" THEN GLoopIter(guilds, g, played)
                            ELSE IF at = "waited" THEN GLoopAfterWait(guilds, g)
                            ELSE GLoopFinally(guilds, g), g)
        /\ UNCHANGED <<ovars, tvars, probe, logcfg, seekq, ytc>>

GTimer ==
    \E g \in GuildIds, idle \in BOOLEAN :
        /\ g \in DOMAIN guilds.inactivity_timers
        /\ guilds' = GAfter(GTimerExpired(guilds, g, idle), g)
        /\ UNCHANGED <<ovars, tvars, probe, logcfg, seekq, ytc>>

GCleanup ==
    \E g \in GuildIds :
        /\ guilds' = GAfter(GCleanupGuildState(guilds, g), g)
        /\ UNCHANGED <<ovars, tvars, probe, logcfg, seekq, ytc>>

GAll ==
    /\ guilds' = GAfter(GCleanupAll(guilds), None)
    /\ UNCHANGED <<ovars, tvars, probe, logcfg, seekq, ytc>>

GNext ==
    \/ GAdd \/ GConnect \/ GSkip \/ GStop \/ GJump \/ GSeek \/ GPause
    \/ GResume \/ GLoop \/ GTimer \/ GCleanup \/ GAll

SpecGuilds == Init /\ [][GNext]_vars

\* The entries of guild g in all per-guild maps.
EntriesOf(m, g) ==
    [f \in {"queue_managers", "playback_tasks", "current_audio_files",
            "playback_start_times", "playback_paused_times",
            "total_paused_duration", "inactivity_timers", "last_activity_times"}
        |-> IF g \in DOMAIN m[f] THEN <<m[f][g]>> ELSE <<>>]

\* C12: an operation invoked for a guild leaves the entries of every other
\* guild unchanged in all per-guild maps; only cleanup_all (actor None)
\* touches more than one guild.
C12_NoCrossGuildEffect ==
    [][guilds'.actor # None =>
          \A g \in GuildIds \ {guilds'.actor} :
              EntriesOf(guilds', g) = EntriesOf(guilds, g)]_vars

\* An operation of one guild has just changed its own entries while the
\* other guild has a playback task, an audio file, timing and activity
\* entries.
C12_OtherGuildBusy ==
    \E g \in GuildIds, h \in GuildIds :
        /\ g # h
        /\ guilds.actor = g
        /\ g \notin DOMAIN guilds.playback_tasks
        /\ g \notin DOMAIN guilds.last_activity_times
        /\ g \in DOMAIN guilds.queue_managers
        /\ h \in DOMAIN guilds.playback_tasks
        /\ h \in DOMAIN guilds.current_audio_files
        /\ h \in DOMAIN guilds.playback_paused_times
        /\ h \in DOMAIN guilds.last_activity_times

\* C14: whenever no handler or callback is pending, the guild has a playback
\* start time (get_current_playback_position returns a number, not None)
\* exactly when a song of the guild is playing or paused.
C14_PositionIffPlaying ==
    Quiescent => (has_start <=> audio.on)

\* What a failed operation is claimed to leave alone: the audio playing, the
\* current-audio-file entry and the timing entries.
Playback == <<audio, current_audio_file, has_start, has_paused, has_total>>

\* C26: a jump_to_position that fails leaves the audio playing and the
\* guild's current-audio-file entry, timing entries and queue unchanged.
\* (Every failing jump step is the step of a jump to position 0, which the
\* queue manager rejects whatever the queue holds.)
C26_InvalidJumpNoEffect ==
    [][(last'.op = "jump" /\ ~last'.ok) =>
          /\ Playback' = Playback
          /\ queue' = queue]_vars

\* C27: a seek_to_position that returns failure leaves the audio that was
\* playing, the timing entries and the current-audio-file entry as they
\* were.
C27_FailedSeekNoEffect ==
    [][(last'.op = "seek" /\ ~last'.ok) => Playback' = Playback]_vars

\* C28: a step of add_song_to_queue that returns failure (unsupported URL,
\* no audio info, or an exception before the song is added) changes neither the queue, the
\* inactivity timer, the last-activity time, the playback task nor what is
\* playing, and creates no task.
C28_RejectedAddNoEffect ==
    [][(last'.op = "add" /\ ~last'.ok) =>
          /\ queue' = queue
          /\ inactivity_timer' = inactivity_timer
          /\ has_last_activity' = has_last_activity
          /\ playback_task' = playback_task
          /\ tasks' = tasks
          /\ timers' = timers
          /\ Playback' = Playback]_vars

\* An add was rejected while a song was playing under a live loop with
\* another song queued behind it.
C28_RejectedWhileBusy ==
    /\ last.op = "add" /\ ~last.ok
    /\ audio.on
    /\ queue # <<>>
    /\ playback_task # None /\ LiveTask(playback_task)

\* A step in which the playback loop t ran without a cancellation raised in
\* it; such a step in which the loop ended.
LoopRan(t) ==
    /\ tasks[t].pc # "none"
    /\ ~tasks[t].cancel
    /\ ~tasks'[t].cancel
    /\ tasks'[t] # tasks[t]

LoopEnded(t) == LoopRan(t) /\ tasks'[t].pc = "none"

\* One inactivity timer task is created in the step, and it is the one
\* registered for the guild.
TimerStartedOnce ==
    /\ inactivity_timer' # None
    /\ {n \in TimerIds : timers[n].pc = "none" /\ timers'[n].pc # "none"}
           = {inactivity_timer'}

\* C29: a playback loop that goes on to a song takes the head of the queue,
\* and a song it gave up leaves no audio-file entry; a loop that ends
\* without being cancelled ends because get_next_song returned nothing, and
\* in that step it starts the inactivity timer once, removes its own entry
\* from _playback_tasks and leaves no current-audio-file entry.
C29_LoopDrainsQueue ==
    [][\A t \in TaskIds :
          /\ (LoopRan(t) /\ tasks'[t].pc = "download") =>
                /\ queue # <<>>
                /\ tasks'[t].song = Head(queue)
                /\ queue' = Tail(queue)
                /\ tasks[t].pc = "download" => current_audio_file' # tasks[t].song
          /\ LoopEnded(t) =>
                /\ queue = <<>>
                /\ current_song' = None
                /\ TimerStartedOnce
                /\ playback_task = t
                /\ playback_task' = None
                /\ current_audio_file' = None]_vars

\* C30: whenever the guild is connected, nothing is playing, no playback
\* loop exists and no handler or callback is in flight, the inactivity timer
\* registered for the guild is pending.
C30_IdleConnectionHasTimer ==
    (/\ Quiescent
     /\ connected
     /\ ~audio.on
     /\ \A t \in TaskIds : tasks[t].pc = "none")
        => /\ inactivity_timer # None
           /\ timers[inactivity_timer].pc \in {"new", "sleep"}
           /\ ~timers[inactivity_timer].cancel

\* add_song_to_queue or connect_to_user_channel has just returned success.
ActivityDone == last.op \in {"add", "connect"} /\ last.ok

\* C31: when add_song_to_queue or connect_to_user_channel has returned
\* success, _inactivity_timers has no entry, _last_activity_times has one,
\* and every inactivity timer task that exists has a cancellation pending;
\* and a timer task with a cancellation pending ends without disconnecting.
C31_ActivityResetsTimer ==
    /\ [](ActivityDone =>
             /\ inactivity_timer = None
             /\ has_last_activity
             /\ \A n \in TimerIds : timers[n].pc # "none" => timers[n].cancel)
    /\ [][\A n \in TimerIds :
             (timers[n].pc # "none" /\ timers[n].cancel /\ timers'[n].pc = "none")
                 => connected' = connected]_vars

\* ======================================================= Catbox HEAD probe
\* CatboxClient._make_head_request_with_retry: attempts are numbered from 0;
\* each issues one HEAD request, whose outcome is a response (returned
\* whatever its status), an aiohttp.ClientError, or another exception.
Statuses == {200, 404, 500}
DefaultMaxRetries == 2

AttemptsOneLess(max_retries) == max_retries

\* range(max_retries + 1)
Attempts(max_retries) == max_retries + 1

\* wait_time = 2 ** attempt
WaitTime(attempt) == 2 ^ attempt

\* The call: with max_retries given, or left to its default.
HeadCall ==
    /\ probe.pc \in {"idle", "done"}
    /\ \E default \in BOOLEAN, given \in 0..MaxRetries :
         probe' = [pc |-> "request", default |-> default,
                   max_retries |-> IF default THEN DefaultMaxRetries ELSE given,
                   attempt |-> 0, requests |-> 0, waits |-> <<>>,
                   result |-> "none", status |-> 0]
    /\ UNCHANGED <<ovars, tvars, guilds, logcfg, seekq, ytc>>

\* One pass of the for-loop: the request and what follows its outcome.
HeadRequest ==
    /\ probe.pc = "request"
    /\ \E outcome \in {"response", "client_error", "other_error"},
          status \in Statuses :
         LET p == [probe EXCEPT !.requests = @ + 1] IN
         probe' =
           IF outcome = "response"
           THEN [p EXCEPT !.pc = "done", !.result = "response",
                          !.status = status]
           ELSE IF outcome = "other_error"
           THEN [p EXCEPT !.pc = "done", !.result = "raised"]
           ELSE IF p.attempt < p.max_retries
           THEN [p EXCEPT !.pc = "sleep",
                          !.waits = Append(@, WaitTime(p.attempt))]
           ELSE IF p.attempt + 1 < Attempts(p.max_retries)
           THEN [p EXCEPT !.attempt = @ + 1]
           ELSE [p EXCEPT !.pc = "done", !.result = "None"]
    /\ UNCHANGED <<ovars, tvars, guilds, logcfg, seekq, ytc>>

\* asyncio.sleep(wait_time) returns: the next attempt, if the range has one.
HeadSleepDone ==
    /\ probe.pc = "sleep"
    /\ probe' = IF probe.attempt + 1 < Attempts(probe.max_retries)
                THEN [probe EXCEPT !.pc = "request", !.attempt = @ + 1]
                ELSE [probe EXCEPT !.pc = "done", !.result = "None"]
    /\ UNCHANGED <<ovars, tvars, guilds, logcfg, seekq, ytc>>

HNext == HeadCall \/ HeadRequest \/ HeadSleepDone

SpecProbe == Init /\ [][HNext]_vars

\* C13 as stated: a probe with the default max_retries issues at most two
\* HEAD requests.
C13_AtMostTwoRequests == probe.default => probe.requests <= 2

\* C13, amended: a probe issues at most max_retries + 1 HEAD requests (three
\* with the default of 2); it returns None exactly after max_retries + 1
\* requests failed with a ClientError; and the wait after attempt i
\* (counted from 0) is 2^i seconds: 1, 2, 4, ...
C13_RetriesPlusOneRequests ==
    /\ probe.requests <= probe.max_retries + 1
    /\ probe.default => probe.max_retries = 2 /\ probe.requests <= 3
    /\ probe.result = "None" =>
           /\ probe.requests = probe.max_retries + 1
           /\ Len(probe.waits) = probe.max_retries
    /\ \A i \in 1..Len(probe.waits) : probe.waits[i] = 2 ^ (i - 1)
    /\ Len(probe.waits) <= probe.requests

\* A default probe gave up after three failed requests, having waited 1 s
\* and 2 s.
C13_DefaultGaveUpAfterThree ==
    /\ probe.default
    /\ probe.pc = "done"
    /\ probe.result = "None"
    /\ probe.requests = 3
    /\ probe.waits = <<1, 2>>

\* ============================================================ setup_logger
\* The level names given to setup_logger, and str.upper() on them.
Upper ==
    [n \in {"debug", "Info", "WARNING", "error", "Critical", "warn", "FATAL",
            "notset", "basic_format", "verbose", "trace"} |->
        CASE n = "debug" -> "DEBUG"
          [] n = "Info" -> "INFO"
          [] n = "WARNING" -> "WARNING"
          [] n = "error" -> "ERROR"
          [] n = "Critical" -> "CRITICAL"
          [] n = "warn" -> "WARN"
          [] n = "FATAL" -> "FATAL"
          [] n = "notset" -> "NOTSET"
          [] n = "basic_format" -> "BASIC_FORMAT"
          [] n = "verbose" -> "VERBOSE"
          [] n = "trace" -> "TRACE"]

LevelNames == DOMAIN Upper

\* The levels the docstring and the error message of setup_logger name.
DocumentedLevels == {"DEBUG", "INFO", "WARNING", "ERROR", "CRITICAL"}

\* A value of the logging module that is not a level (BASIC_FORMAT is a
\* format string).
NotALevel == -1

\* getattr(logging, NAME) for the upper-case attributes of the logging
\* module; hasattr(logging, NAME) is membership in its domain.
LoggingAttr ==
    [a \in DocumentedLevels \cup {"FATAL", "WARN", "NOTSET", "BASIC_FORMAT"} |->
        CASE a = "CRITICAL" -> 50
          [] a = "FATAL" -> 50
          [] a = "ERROR" -> 40
          [] a = "WARNING" -> 30
          [] a = "WARN" -> 30
          [] a = "INFO" -> 20
          [] a = "DEBUG" -> 10
          [] a = "NOTSET" -> 0
          [] a = "BASIC_FORMAT" -> NotALevel]

HasAttr(a) == a \in DOMAIN LoggingAttr

\* What log_file is: not given, a file that can be opened, or one whose
\* directory or file cannot be set up (OSError).
LogFiles == {"none", "ok", "oserror"}

Handler(kind, level) == [kind |-> kind, level |-> level]

KeepHandlers(lg) == lg

\* logger.handlers.clear()
ClearHandlers(lg) == [lg EXCEPT !.handlers = <<>>]

AddHandler(lg, h) == [lg EXCEPT !.handlers = Append(@, h)]

SetUpFileLoggingUncaught(lg, file, level) ==
    IF file = "none" THEN lg
    ELSE IF file = "ok" THEN AddHandler(lg, Handler("file", level))
    ELSE [lg EXCEPT !.outcome = "OSError"]

\* The `if log_file:` block: the file handler is added unless setting it up
\* raises OSError, which is caught.
SetUpFileLogging(lg, file, level) ==
    IF file = "ok" THEN AddHandler(lg, Handler("file", level)) ELSE lg

\* setup_logger(log_level = name, log_file = file) on the logger lg.
SetupLogger(lg, name, file) ==
    LET log_level == Upper[name]
        call == [lg EXCEPT !.name = name, !.file = file,
                           !.prior = Len(lg.handlers)]
    IN
    IF ~HasAttr(log_level)
    THEN [call EXCEPT !.outcome = "ValueError: Invalid log level"]
    ELSE
      LET cleared == ClearHandlers(call)
          level == LoggingAttr[log_level]
      IN
      IF level = NotALevel
      THEN [cleared EXCEPT !.outcome = "ValueError: Unknown level"]
      ELSE
        LET console == AddHandler([cleared EXCEPT !.level = level,
                                                  !.outcome = "ok"],
                                  Handler("console", level))
            filed == SetUpFileLogging(console, file, level)
        IN
        IF filed.outcome = "ok" THEN [filed EXCEPT !.propagate = FALSE]
        ELSE filed

LSetup ==
    /\ \E name \in LevelNames, file \in LogFiles :
         logcfg' = SetupLogger(logcfg, name, file)
    /\ UNCHANGED <<ovars, tvars, guilds, probe, seekq, ytc>>

LNext == LSetup

SpecLogger == Init /\ [][LNext]_vars

\* C15: after a successful setup_logger call the logger has exactly the
\* handlers of that call (one console handler, then one file handler iff
\* log_file was given and could be opened), each at the level of the call,
\* its level is the level of the call, and propagate is False.
C15_HandlersOfLastCall ==
    logcfg.outcome = "ok" =>
        /\ logcfg.handlers =
             <<Handler("console", logcfg.level)>>
               \o (IF logcfg.file = "ok"
                   THEN <<Handler("file", logcfg.level)>> ELSE <<>>)
        /\ logcfg.level = LoggingAttr[Upper[logcfg.name]]
        /\ ~logcfg.propagate

\* A successful call on a logger that had a console and a file handler
\* leaves the console handler alone.
C15_TwoHandlersReplacedByOne ==
    /\ logcfg.outcome = "ok"
    /\ logcfg.prior = 2
    /\ Len(logcfg.handlers) = 1

\* C16: a call with a documented level whose log file cannot be set up
\* (OSError) raises nothing and leaves exactly the console handler, the
\* level of the call and propagate False.
C16_ConsoleOnlyOnFileError ==
    (/\ logcfg.outcome # "none"
     /\ logcfg.file = "oserror"
     /\ Upper[logcfg.name] \in DocumentedLevels) =>
        /\ logcfg.outcome = "ok"
        /\ logcfg.handlers = <<Handler("console", LoggingAttr[Upper[logcfg.name]])>>
        /\ logcfg.level = LoggingAttr[Upper[logcfg.name]]
        /\ ~logcfg.propagate

\* A call with an unopenable log file, on a logger that had a console and
\* a file handler, returned normally.
C16_FileErrorAfterFileLogging ==
    /\ logcfg.outcome = "ok"
    /\ logcfg.file = "oserror"
    /\ logcfg.prior = 2
    /\ Upper[logcfg.name] = "DEBUG"

\* C17: a setup_logger call succeeds exactly when the upper-cased name is
\* one of DEBUG, INFO, WARNING, ERROR, CRITICAL; for every other name it
\* raises ValueError('Invalid log level: ...') and leaves the handlers, the
\* level and the propagate flag of the logger as they were.
C17_LevelValidation ==
    [][logcfg'.outcome # "none" =>
         IF Upper[logcfg'.name] \in DocumentedLevels
         THEN logcfg'.outcome = "ok"
         ELSE /\ logcfg'.outcome = "ValueError: Invalid log level"
              /\ logcfg'.handlers = logcfg.handlers
              /\ logcfg'.level = logcfg.level
              /\ logcfg'.propagate = logcfg.propagate]_vars

\* ============================================================ SeekManager
\* A str is the sequence of its characters.  A regex group that did not
\* take part in the match (None) is the empty sequence.
Digits == <<"0", "1", "2", "3", "4", "5", "6", "7", "8", "9">>
IsDigit(c) == \E i \in 1..Len(Digits) : Digits[i] = c
DigitValue(c) == (CHOOSE i \in 1..Len(Digits) : Digits[i] = c) - 1
Whitespace == {" ", "\t", "\n"}

\* str.strip()
RECURSIVE LStrip(_)
LStrip(s) == IF s # <<>> /\ s[1] \in Whitespace THEN LStrip(Tail(s)) ELSE s

RECURSIVE RStrip(_)
RStrip(s) ==
    IF s # <<>> /\ s[Len(s)] \in Whitespace
    THEN RStrip(SubSeq(s, 1, Len(s) - 1)) ELSE s

Strip(s) == RStrip(LStrip(s))

\* \d+ against a whole string
AllDigits(s) == s # <<>> /\ \A i \in 1..Len(s) : IsDigit(s[i])

\* int() of a string of digits
RECURSIVE ToInt(_)
ToInt(s) ==
    IF s = <<>> THEN 0
    ELSE ToInt(SubSeq(s, 1, Len(s) - 1)) * 10 + DigitValue(s[Len(s)])

\* The parts of a string between its colons.
RECURSIVE SplitColon(_)
SplitColon(s) ==
    IF \A i \in 1..Len(s) : s[i] # ":" THEN <<s>>
    ELSE LET k == CHOOSE i \in 1..Len(s) :
                      s[i] = ":" /\ \A j \in 1..(i - 1) : s[j] # ":"
         IN <<SubSeq(s, 1, k - 1)>> \o SplitColon(SubSeq(s, k + 1, Len(s)))

NoMatch == [matched |-> FALSE, sign |-> <<>>, hours |-> <<>>,
            minutes |-> <<>>, seconds |-> <<>>]

\* TIME_ABSOLUTE_PATTERN  ^(?:(\d{1,2}):)?(\d{1,2}):(\d{2})$
MatchTimeAbsolute(s) ==
    LET f == SplitColon(s) IN
    IF /\ Len(f) \in {2, 3}
       /\ \A i \in 1..Len(f) : AllDigits(f[i])
       /\ \A i \in 1..(Len(f) - 1) : Len(f[i]) \in {1, 2}
       /\ Len(f[Len(f)]) = 2
    THEN [matched |-> TRUE, sign |-> <<>>,
          hours |-> IF Len(f) = 3 THEN f[1] ELSE <<>>,
          minutes |-> f[Len(f) - 1], seconds |-> f[Len(f)]]
    ELSE NoMatch

HasSign(s) == s # <<>> /\ s[1] \in {"+", "-"}

\* TIME_RELATIVE_PATTERN  ^([+-])(?:(\d{1,2}):)?(\d{1,2}):(\d{2})$
MatchTimeRelative(s) ==
    IF HasSign(s) /\ MatchTimeAbsolute(Tail(s)).matched
    THEN [MatchTimeAbsolute(Tail(s)) EXCEPT !.sign = <<s[1]>>]
    ELSE NoMatch

\* TIME_SECONDS_ONLY_PATTERN  ^([+-])?(\d+)$
MatchSecondsOnly(s) ==
    LET body == IF HasSign(s) THEN Tail(s) ELSE s IN
    IF AllDigits(body)
    THEN [NoMatch EXCEPT !.matched = TRUE, !.seconds = body,
                         !.sign = IF HasSign(s) THEN <<s[1]>> ELSE <<>>]
    ELSE NoMatch

\* float(int) raises OverflowError for an int of this many decimal digits
\* or more (the largest float is below 1.8 * 10^308).
FloatOverflowDigits == 310

RECURSIVE Significant(_)
Significant(s) ==
    IF Len(s) > 1 /\ s[1] = "0" THEN Significant(Tail(s)) ELSE s

\* int(seconds_str) then float(seconds): the value, for the digit strings
\* used here (short enough for the value to be exact, or long enough for
\* the conversion to overflow).
FloatOverflows(digits) == Len(Significant(digits)) >= FloatOverflowDigits

\* _parse_time_components
ParseTimeComponents(sign, hours, minutes, seconds, is_relative) ==
    LET h == IF hours # <<>> THEN ToInt(hours) ELSE 0
        m == ToInt(minutes)
        s == ToInt(seconds)
        total_seconds == h * 3600 + m * 60 + s
    IN
    IF m >= 60 THEN SeekResult(FALSE, NoTarget, "Minutes must be less than 60")
    ELSE IF s >= 60
    THEN SeekResult(FALSE, NoTarget, "Seconds must be less than 60")
    ELSE IF is_relative /\ sign = <<"-">>
    THEN SeekResult(TRUE, -total_seconds, "")
    ELSE SeekResult(TRUE, total_seconds, "")

\* parse_seek_time
ParseSeekTime(time_str) ==
    LET s == Strip(time_str)
        rel == MatchTimeRelative(s)
        abs == MatchTimeAbsolute(s)
        sec == MatchSecondsOnly(s)
    IN
    IF s = <<>> THEN SeekResult(FALSE, NoTarget, "Empty time string")
    ELSE IF rel.matched
    THEN ParseTimeComponents(rel.sign, rel.hours, rel.minutes, rel.seconds, TRUE)
    ELSE IF abs.matched
    THEN ParseTimeComponents(<<>>, abs.hours, abs.minutes, abs.seconds, FALSE)
    ELSE IF sec.matched
    THEN IF FloatOverflows(sec.seconds)
         THEN [SeekResult(FALSE, NoTarget, "") EXCEPT !.raised = "OverflowError"]
         ELSE SeekResult(TRUE,
                         IF sec.sign = <<"-">> THEN -ToInt(sec.seconds)
                         ELSE ToInt(sec.seconds),
                         "")
    ELSE SeekResult(FALSE, NoTarget, "Invalid time format")

IsRelativeSeekFullFormatOnly(time_str) ==
    MatchTimeRelative(Strip(time_str)).matched

\* is_relative_seek
IsRelativeSeek(time_str) ==
    LET s == Strip(time_str) IN
    MatchTimeRelative(s).matched \/ (MatchSecondsOnly(s).matched /\ HasSign(s))

\* f"{v:02d}"
RECURSIVE Decimal(_)
Decimal(v) ==
    IF v < 10 THEN <<Digits[v + 1]>>
    ELSE Decimal(v \div 10) \o <<Digits[(v % 10) + 1]>>

TwoDigitsUnpadded(v) == Decimal(v)

TwoDigits(v) == IF v < 10 THEN <<"0">> \o Decimal(v) ELSE Decimal(v)

\* SeekManager.format_time
RECURSIVE FormatTime(_)
FormatTime(seconds) ==
    IF seconds < 0 THEN <<"-">> \o FormatTime(-seconds)
    ELSE LET hours == seconds \div 3600
             minutes == (seconds % 3600) \div 60
             secs == seconds % 60
         IN IF hours > 0
            THEN TwoDigits(hours) \o <<":">> \o TwoDigits(minutes)
                     \o <<":">> \o TwoDigits(secs)
            ELSE TwoDigits(minutes) \o <<":">> \o TwoDigits(secs)

\* YouTubeClient.format_duration, for seconds >= 0
FormatDuration(seconds) ==
    IF seconds < 3600
    THEN TwoDigits(seconds \div 60) \o <<":">> \o TwoDigits(seconds % 60)
    ELSE LET hours == seconds \div 3600
             remainder == seconds % 3600
         IN TwoDigits(hours) \o <<":">> \o TwoDigits(remainder \div 60)
                \o <<":">> \o TwoDigits(remainder % 60)

\* The strings given to parse_seek_time: a body of one of four kinds, after
\* an optional sign, with or without whitespace around it.
Signs == {<<>>, <<"+">>, <<"-">>}
HoursTexts == {<<"1">>, <<"0", "2">>, <<"9", "9">>, <<"1", "0", "0">>}
MinutesTexts == {<<"7">>, <<"0", "0">>, <<"5", "9">>, <<"6", "0">>,
                 <<"9", "9">>, <<"1", "2", "3">>}
SecondsTexts == {<<"5">>, <<"0", "0">>, <<"0", "5">>, <<"5", "9">>,
                 <<"6", "0">>, <<"9", "9">>}
LongDigits == [i \in 1..FloatOverflowDigits |-> "9"]
DigitTexts == {<<"0">>, <<"3", "0">>, <<"0", "0", "9", "0">>,
               <<"1", "2", "3", "4", "5">>, LongDigits}
OtherTexts == {<<>>, <<"a">>, <<":">>, <<"1", ".", "5">>, <<"1", " ", "0">>,
               <<"1", ":">>, <<":", "3", "0">>, <<"1", "e", "3">>,
               <<"1", ":", "2", ":", "3", ":", "0", "4">>}

Parts(kind, sign, hh, mm, ss) ==
    [kind |-> kind, sign |-> sign, hh |-> hh, mm |-> mm, ss |-> ss]

AllParts ==
    {Parts("hms", sign, hh, mm, ss) :
        sign \in Signs, hh \in HoursTexts, mm \in MinutesTexts, ss \in SecondsTexts}
    \cup {Parts("ms", sign, <<>>, mm, ss) :
        sign \in Signs, mm \in MinutesTexts, ss \in SecondsTexts}
    \cup {Parts("seconds", sign, <<>>, <<>>, ss) : sign \in Signs, ss \in DigitTexts}
    \cup {Parts("other", sign, <<>>, <<>>, ss) : sign \in Signs, ss \in OtherTexts}

TextOf(parts, padded) ==
    LET body == CASE parts.kind = "hms" ->
                       parts.hh \o <<":">> \o parts.mm \o <<":">> \o parts.ss
                  [] parts.kind = "ms" -> parts.mm \o <<":">> \o parts.ss
                  [] OTHER -> parts.ss
    IN IF padded THEN <<" ", "\t">> \o parts.sign \o body \o <<" ", "\n">>
       ELSE parts.sign \o body

\* parse_seek_time(text) and is_relative_seek(text) are called.
SParse ==
    /\ seekq.op = "none"
    /\ \E parts \in AllParts, padded \in BOOLEAN :
         seekq' = [seekq EXCEPT !.op = "parse",
                                !.parts = parts,
                                !.text = TextOf(parts, padded),
                                !.result = ParseSeekTime(TextOf(parts, padded)),
                                !.relative = IsRelativeSeek(TextOf(parts, padded))]
    /\ UNCHANGED <<ovars, tvars, guilds, probe, logcfg, ytc>>

\* The numbers of seconds given to format_time: each sign, with hours,
\* minutes and seconds at and around their boundaries.
FormatInputs ==
    {sg * (h * 3600 + m * 60 + s) :
        sg \in {1, -1}, h \in {0, 1, 9, 10, 99, 100},
        m \in {0, 1, 9, 10, 59}, s \in {0, 1, 9, 10, 59}}

\* format_time(n) is called, its result is parsed, and format_duration(n)
\* is called when n >= 0.
SFormat ==
    /\ seekq.op = "none"
    /\ \E n \in FormatInputs :
         seekq' = [seekq EXCEPT !.op = "format",
                                !.n = n,
                                !.formatted = FormatTime(n),
                                !.result = ParseSeekTime(FormatTime(n)),
                                !.relative = IsRelativeSeek(FormatTime(n)),
                                !.duration = IF n >= 0 THEN FormatDuration(n)
                                             ELSE <<>>]
    /\ UNCHANGED <<ovars, tvars, guilds, probe, logcfg, ytc>>

ValidateSeekPositionExclusive(target_seconds, current_position, song_duration, is_relative) ==
    LET absolute_position == IF is_relative
                             THEN current_position + target_seconds
                             ELSE target_seconds
    IN IF absolute_position < 0 \/ absolute_position >= song_duration
       THEN SeekResult(FALSE, NoTarget, "Cannot seek there")
       ELSE SeekResult(TRUE, absolute_position, "")

ValidateSeekPositionUnknownDuration(target_seconds, current_position, song_duration, is_relative) ==
    LET absolute_position == IF is_relative
                             THEN current_position + target_seconds
                             ELSE target_seconds
    IN IF absolute_position < 0
       THEN SeekResult(FALSE, NoTarget, "Cannot seek to negative position")
       ELSE IF song_duration > 0 /\ absolute_position > song_duration
       THEN SeekResult(FALSE, NoTarget, "Cannot seek beyond song duration")
       ELSE SeekResult(TRUE, absolute_position, "")

\* validate_seek_position
ValidateSeekPosition(target_seconds, current_position, song_duration, is_relative) ==
    LET absolute_position == IF is_relative
                             THEN current_position + target_seconds
                             ELSE target_seconds
    IN IF absolute_position < 0
       THEN SeekResult(FALSE, NoTarget, "Cannot seek to negative position")
       ELSE IF absolute_position > song_duration
       THEN SeekResult(FALSE, NoTarget, "Cannot seek beyond song duration")
       ELSE SeekResult(TRUE, absolute_position, "")

\* validate_seek_position is called.
SValidate ==
    /\ seekq.op = "none"
    /\ \E target \in {-31, -6, -5, -1, 0, 1, 5, 25, 30, 31},
          current \in {0, 5, 30}, song_duration \in {0, 30},
          is_relative \in BOOLEAN :
         seekq' = [seekq EXCEPT !.op = "validate",
                                !.n = target,
                                !.current = current,
                                !.song_duration = song_duration,
                                !.relative = is_relative,
                                !.result = ValidateSeekPosition(
                                    target, current, song_duration, is_relative)]
    /\ UNCHANGED <<ovars, tvars, guilds, probe, logcfg, ytc>>

\* The duration extract_audio_info gives every Catbox song.
CatboxDuration == 0

\* seek_to_position between get_current_song and _perform_seek, for a
\* connected guild with a current song: the target _perform_seek is called
\* with (NoTarget when it is not called) and the message returned.
SeekTarget(time_str, position, song_duration) ==
    LET seek_result == ParseSeekTime(time_str)
        current_position == IF position = NoPosition THEN 0 ELSE position
        validation_result ==
            ValidateSeekPosition(seek_result.target_position, current_position,
                                 song_duration, IsRelativeSeek(time_str))
    IN
    IF seek_result.raised # ""
    THEN [performed |-> NoTarget, message |-> "Error seeking to position"]
    ELSE IF ~seek_result.success \/ seek_result.target_position = NoTarget
    THEN [performed |-> NoTarget,
          message |-> IF seek_result.error_message # ""
                      THEN seek_result.error_message
                      ELSE "Failed to parse seek time"]
    ELSE IF ~validation_result.success
              \/ validation_result.target_position = NoTarget
    THEN [performed |-> NoTarget,
          message |-> IF validation_result.error_message # ""
                      THEN validation_result.error_message
                      ELSE "Invalid seek position"]
    ELSE [performed |-> validation_result.target_position, message |-> ""]

\* seek_to_position is called while a song of some duration is current and
\* the position is None or a number.
SSeek ==
    /\ seekq.op = "none"
    /\ \E parts \in AllParts, position \in {NoPosition, 0, 5, 30},
          song_duration \in {CatboxDuration, 30, 3723} :
         LET time_str == TextOf(parts, FALSE)
             to == SeekTarget(time_str, position, song_duration)
         IN seekq' = [seekq EXCEPT !.op = "seek",
                                   !.parts = parts,
                                   !.text = time_str,
                                   !.current = position,
                                   !.song_duration = song_duration,
                                   !.result = ParseSeekTime(time_str),
                                   !.relative = IsRelativeSeek(time_str),
                                   !.performed = to.performed,
                                   !.message = to.message]
    /\ UNCHANGED <<ovars, tvars, guilds, probe, logcfg, ytc>>

\* The call returns to its caller.
SReturn ==
    /\ seekq.op # "none"
    /\ seekq' = SeekIdle
    /\ UNCHANGED <<ovars, tvars, guilds, probe, logcfg, ytc>>

SNext == SParse \/ SFormat \/ SValidate \/ SSeek \/ SReturn

SpecSeek == Init /\ [][SNext]_vars

\* What the documentation of parse_seek_time gives for a string made of
\* parts: the shape [hh:]mm:ss has one or two digits of hours and minutes
\* and two of seconds.
WellShaped(parts) ==
    /\ parts.kind \in {"hms", "ms"}
    /\ parts.kind = "hms" => Len(parts.hh) \in {1, 2}
    /\ Len(parts.mm) \in {1, 2}
    /\ Len(parts.ss) = 2

Failed(r) ==
    ~r.success /\ r.raised = "" /\ r.target_position = NoTarget
        /\ r.error_message # ""

Signed(sign, v) == IF sign = <<"-">> THEN -v ELSE v

\* C22: parse_seek_time gives hh*3600 + mm*60 + ss for [hh:]mm:ss, the same
\* after '+' and its negation after '-', N or -N for [+/-]N, and fails with
\* a message for the empty string, for minutes or seconds >= 60 and for a
\* string of no supported format; surrounding whitespace is ignored.
C22_ParseSeekTimeValue ==
    seekq.op = "parse" =>
        LET p == seekq.parts
            r == seekq.result
        IN
        IF WellShaped(p) /\ ToInt(p.mm) < 60 /\ ToInt(p.ss) < 60
        THEN /\ r.success /\ r.raised = ""
             /\ r.target_position =
                  Signed(p.sign, ToInt(p.hh) * 3600 + ToInt(p.mm) * 60 + ToInt(p.ss))
        ELSE IF p.kind = "seconds"
        THEN /\ r.success /\ r.raised = ""
             /\ Len(p.ss) < 10 => r.target_position = Signed(p.sign, ToInt(p.ss))
        ELSE Failed(r)

\* C23: for a string that parse_seek_time accepts, is_relative_seek is True
\* exactly when the stripped string begins with '+' or '-'; a negative
\* parsed value is always relative; and the position seek_to_position asks
\* _perform_seek for is the current position plus the value for a signed
\* string, the value itself for an unsigned one.
C23_RelativeIffSigned ==
    (seekq.op \in {"parse", "seek"} /\ seekq.result.success) =>
        /\ seekq.relative <=> seekq.parts.sign # <<>>
        /\ seekq.relative <=> HasSign(Strip(seekq.text))
        /\ seekq.result.target_position < 0 => seekq.relative
        /\ (seekq.op = "seek" /\ seekq.performed # NoTarget) =>
              seekq.performed =
                  IF seekq.parts.sign # <<>>
                  THEN (IF seekq.current = NoPosition THEN 0 ELSE seekq.current)
                           + seekq.result.target_position
                  ELSE seekq.result.target_position

\* An accepted '-hh:mm:ss' with whitespace around it, and a negative value.
C23_PaddedNegativeOffset ==
    /\ seekq.op = "parse"
    /\ seekq.result.success
    /\ seekq.result.target_position < 0
    /\ seekq.parts.kind = "hms"
    /\ seekq.text # Strip(seekq.text)
    /\ seekq.relative

\* C24: parse_seek_time(format_time(n)) succeeds with n for |n| < 360000,
\* and format_time(n) = format_duration(n) for n >= 0.
C24_FormatParseRoundTrip ==
    seekq.op = "format" =>
        /\ (seekq.n < 360000 /\ seekq.n > -360000) =>
              /\ seekq.result.success
              /\ seekq.result.target_position = seekq.n
        /\ seekq.n >= 0 => seekq.formatted = seekq.duration

\* -99:59:59 was formatted and parsed back.
C24_LargestNegative ==
    /\ seekq.op = "format"
    /\ seekq.n = -359999
    /\ seekq.formatted = <<"-", "9", "9", ":", "5", "9", ":", "5", "9">>
    /\ seekq.result.target_position = -359999

\* The absolute position a seek asks for: the current position (0 when
\* there is none) plus the target when relative, the target otherwise.
AskedPosition ==
    IF seekq.relative
    THEN (IF seekq.current = NoPosition THEN 0 ELSE seekq.current)
             + seekq.result.target_position
    ELSE seekq.result.target_position

\* C21: validate_seek_position succeeds exactly when the absolute position p
\* satisfies 0 <= p <= song_duration, and returns p; seek_to_position calls
\* _perform_seek only with a target within [0, duration of the song].
C21_SeekTargetWithinSong ==
    /\ seekq.op = "validate" =>
         LET p == IF seekq.relative THEN seekq.current + seekq.n ELSE seekq.n IN
         /\ seekq.result.success <=> (0 <= p /\ p <= seekq.song_duration)
         /\ seekq.result.success => seekq.result.target_position = p
    /\ (seekq.op = "seek" /\ seekq.performed # NoTarget) =>
         /\ 0 <= seekq.performed
         /\ seekq.performed <= seekq.song_duration
         /\ seekq.performed = AskedPosition
    /\ (seekq.op = "seek" /\ seekq.result.success
            /\ 0 <= AskedPosition /\ AskedPosition <= seekq.song_duration) =>
         seekq.performed = AskedPosition

\* A relative seek from a position > 0 to exactly the end of the song was
\* accepted.
C21_SeekToExactEnd ==
    /\ seekq.op = "seek"
    /\ seekq.relative
    /\ seekq.current > 0
    /\ seekq.song_duration > 0
    /\ seekq.performed = seekq.song_duration

\* C25: for a current song of duration 0, a seek whose time string parses
\* and asks for a position > 0 does not reach _perform_seek and returns a
\* 'Cannot seek beyond song duration' message.
C25_NoForwardSeekWithoutDuration ==
    (/\ seekq.op = "seek"
     /\ seekq.song_duration = CatboxDuration
     /\ seekq.result.success
     /\ AskedPosition > 0) =>
        /\ seekq.performed = NoTarget
        /\ seekq.message = "Cannot seek beyond song duration"

\* A backward relative seek on a song of duration 0 that has played for a
\* while was refused as beyond the duration.
C25_BackwardSeekRefused ==
    /\ seekq.op = "seek"
    /\ seekq.song_duration = CatboxDuration
    /\ seekq.relative
    /\ seekq.result.success
    /\ seekq.result.target_position < 0
    /\ seekq.message = "Cannot seek beyond song duration"

\* ============================================================ YouTubeClient
\* A ConfigManager answers its option queries with booleans; the client is
\* built with one or with none.
Configs ==
    {NoConfig} \cup
    [present : {TRUE}, potoken : BOOLEAN, auto_generate : BOOLEAN,
     auto_fallback : BOOLEAN, web_client : BOOLEAN]

\* What the YouTube constructor can raise: a PytubeFixError or another
\* exception, with a message that holds one of the bot-detection indicators
\* or none of them.
Failures == [pytubefix : BOOLEAN, indicator : BOOLEAN]

\* _is_bot_detection_error(str(e))
IsBotDetectionError(e) == e.indicator

\* _get_youtube_kwargs(url, attempt)
GetYoutubeKwargs(config, attempt) ==
    IF ~config.present THEN NoKwargs
    ELSE IF attempt = 0
    THEN IF config.potoken /\ config.auto_generate
         THEN [NoKwargs EXCEPT !.client = "configured"]
         ELSE IF config.potoken
         THEN [NoKwargs EXCEPT !.use_po_token = TRUE]
         ELSE NoKwargs
    ELSE IF config.auto_fallback
    THEN IF attempt = 1 /\ config.web_client
         THEN [NoKwargs EXCEPT !.client = "WEB"]
         ELSE IF attempt = 2
         THEN [NoKwargs EXCEPT !.use_po_token = TRUE]
         ELSE NoKwargs
    ELSE NoKwargs

\* f"attempt_{attempt}"
AttemptName(attempt) ==
    CASE attempt = 0 -> "attempt_0"
      [] attempt = 1 -> "attempt_1"
      [] attempt = 2 -> "attempt_2"
      [] OTHER -> "attempt_3"

\* _create_youtube_object(url, on_progress_callback, attempt) up to the
\* await of the constructor running in a thread.
CreateYoutubeObject(y, attempt) ==
    [y EXCEPT !.pc = "creating",
              !.attempt = attempt,
              !.kwargs = [GetYoutubeKwargs(y.config, attempt)
                              EXCEPT !.on_progress_callback = y.callback],
              !.made = Append(@, attempt)]

\* The constructor returned the object.
YoutubeCreated(y) ==
    [y EXCEPT !.pc = "returned",
              !.last_successful_method =
                  IF y.attempt > 0 THEN AttemptName(y.attempt) ELSE @]

YoutubeFailedFourAttempts(y, e) ==
    LET y1 == [y EXCEPT !.errors = Append(@, e)] IN
    IF /\ e.pytubefix
       /\ IsBotDetectionError(e)
       /\ y.config.present
       /\ y.config.auto_fallback
       /\ y.attempt < 3
    THEN CreateYoutubeObject(y1, y.attempt + 1)
    ELSE [y1 EXCEPT !.pc = "raised", !.raised = <<y.attempt>>]

\* The constructor raised e: only a PytubeFixError is caught; the nested
\* call's result or exception is the caller's.
YoutubeFailed(y, e) ==
    LET y1 == [y EXCEPT !.errors = Append(@, e)] IN
    IF /\ e.pytubefix
       /\ IsBotDetectionError(e)
       /\ y.config.present
       /\ y.config.auto_fallback
       /\ y.attempt < 2
    THEN CreateYoutubeObject(y1, y.attempt + 1)
    ELSE [y1 EXCEPT !.pc = "raised", !.raised = <<y.attempt>>]

\* extract_audio_info calls without a progress callback, download_audio
\* with one; both with the default attempt 0.
YCall ==
    /\ ytc.pc = "idle"
    /\ \E callback \in BOOLEAN :
         ytc' = CreateYoutubeObject([ytc EXCEPT !.callback = callback], 0)
    /\ UNCHANGED <<ovars, tvars, guilds, probe, logcfg, seekq>>

YSucceeds ==
    /\ ytc.pc = "creating"
    /\ ytc' = YoutubeCreated(ytc)
    /\ UNCHANGED <<ovars, tvars, guilds, probe, logcfg, seekq>>

YFails ==
    /\ ytc.pc = "creating"
    /\ \E e \in Failures : ytc' = YoutubeFailed(ytc, e)
    /\ UNCHANGED <<ovars, tvars, guilds, probe, logcfg, seekq>>

\* The call is over; the client keeps its configuration and
\* _last_successful_method.
YReturn ==
    /\ ytc.pc \in {"returned", "raised"}
    /\ ytc' = [YouTubeClient(ytc.config) EXCEPT
                   !.last_successful_method = ytc.last_successful_method]
    /\ UNCHANGED <<ovars, tvars, guilds, probe, logcfg, seekq>>

YInit == \E config \in Configs : InitOf(config)

YNext == YCall \/ YSucceeds \/ YFails \/ YReturn

\* The constructor running in the thread returns or raises.
SpecYouTube == YInit /\ [][YNext]_vars /\ WF_vars(YSucceeds \/ YFails)

\* The failure is one after which the claim allows a further attempt.
BotDetected(e) ==
    /\ e.pytubefix
    /\ e.indicator
    /\ ytc.config.present
    /\ ytc.config.auto_fallback

Last(seq) == seq[Len(seq)]

\* C32: the attempts of a call are numbered 0, 1, 2 in order and are at most
\* three; a further attempt follows only a bot-detection error with a
\* configuration present and auto-fallback enabled; any other failure, and
\* the failure of the third attempt, is raised at once; only a success of an
\* attempt numbered above 0 sets _last_successful_method; and every call
\* ends.
C32_BoundedFallback ==
    /\ [](/\ Len(ytc.made) <= 3
          /\ \A i \in 1..Len(ytc.made) : ytc.made[i] = i - 1
          /\ ytc.pc = "creating" => ytc.attempt = Len(ytc.made) - 1)
    /\ [][Len(ytc'.made) > Len(ytc.made) /\ ytc.pc = "creating"
              => BotDetected(Last(ytc'.errors))]_vars
    /\ [][(/\ Len(ytc'.errors) > Len(ytc.errors)
           /\ (~BotDetected(Last(ytc'.errors)) \/ Len(ytc'.errors) = 3))
              => /\ ytc'.pc = "raised"
                 /\ ytc'.raised = <<ytc.attempt>>
                 /\ ytc'.made = ytc.made]_vars
    /\ [][ytc'.last_successful_method # ytc.last_successful_method
              => /\ ytc.pc = "creating"
                 /\ ytc'.pc = "returned"
                 /\ ytc.attempt > 0
                 /\ ytc'.last_successful_method = AttemptName(ytc.attempt)]_vars
    /\ (ytc.pc = "creating" ~> ytc.pc \in {"returned", "raised"})

\* The third attempt failed with a bot-detection error and its error was
\* raised.
C32_ThirdAttemptRaised ==
    /\ ytc.pc = "raised"
    /\ ytc.made = <<0, 1, 2>>
    /\ ytc.raised = <<2>>
    /\ BotDetected(Last(ytc.errors))

=============================================================================
